---- MODULE Spec2Model ----
(***************************************************************************)
(* A model of dev_random.py: the EntropyPool class, its credit counter,    *)
(* its stir / extract / get_random_bytes algorithms and the rol / ror      *)
(* rotation primitives.                                                    *)
(*                                                                         *)
(* The program is single threaded, so every public method is one atomic    *)
(* action.  The module is Python 2 code (it names `long` and hashes `str`  *)
(* objects directly), so a digest is a `str` and is fed back through       *)
(* convert_str_to_int.  Python integers are unbounded; the model keeps the *)
(* values small enough for TLC by reducing input_ ** tap modulo 2^nbits    *)
(* while it is computed, which gives the same value as masking afterwards. *)
(***************************************************************************)
EXTENDS Integers, Sequences, FiniteSets, TLC

VARIABLES
    nbits,            \* self.nbits
    stir_taps,        \* self.stir_taps
    stir_ror_by,      \* self.stir_ror_by
    hash_func,        \* self.hash_func, named by the length of its digest
    content,          \* self.content
    entropy_count,    \* self.entropy_count
    last_request_t,   \* self.last_request_t, in clock ticks
    op,               \* the method called last
    args,             \* the arguments of that call
    ret,              \* what the call returned (NoValue when nothing or raised)
    raised,           \* the exception the call raised, or "none"
    extract_calls,    \* extract_from_pool calls made by that call
    pc                \* position of the scripted caller (scenario specifications)

vars == <<nbits, stir_taps, stir_ror_by, hash_func, content, entropy_count,
          last_request_t, op, args, ret, raised, extract_calls, pc>>

config == <<nbits, stir_taps, stir_ror_by, hash_func>>

----------------------------------------------------------------------------
(* Bounds of the model *)

MaxNbits == 3          \* pools of 1 bit and of MaxNbits bits
MaxDigestLen == 2      \* digests of 1 .. MaxDigestLen bytes
MaxCount == 2          \* credits are not added beyond this count
MaxDebt == 2           \* failed debits are not attempted below -MaxDebt
MaxNow == 1            \* clock readings 0 .. MaxNow (ticks)
TicksPerMicro == 2     \* clock resolution: ticks per microsecond
MaxNbytes == 3         \* get_random_bytes(0 .. MaxNbytes)
MaxInput == 1          \* integer inputs -1 .. MaxInput
MaxVal == 17           \* rotation operands -2 .. MaxVal
MaxRBits == 5          \* rotation amounts -1 .. MaxRBits
MaxBits == 4           \* rotation field widths 1 .. MaxBits

\* nothing returned
NoValue == <<>>

----------------------------------------------------------------------------
(* Python's integer operators *)

RECURSIVE BitOr(_, _)
\* a | b for non-negative a, b
BitOr(a, b) ==
    IF a = 0 THEN b
    ELSE IF b = 0 THEN a
    ELSE (IF a % 2 = 1 \/ b % 2 = 1 THEN 1 ELSE 0) + 2 * BitOr(a \div 2, b \div 2)

RECURSIVE BitXor(_, _)
\* a ^ b for non-negative a, b
BitXor(a, b) ==
    IF a = 0 THEN b
    ELSE IF b = 0 THEN a
    ELSE ((a + b) % 2) + 2 * BitXor(a \div 2, b \div 2)

\* v & (2 ** bits - 1): Python's & on a two's complement integer of any sign
Mask(v, bits) == v % (2 ^ bits)

\* v << k
Shl(v, k) == v * (2 ^ k)

\* v >> k for non-negative v
Shr(v, k) == v \div (2 ^ k)

RECURSIVE PowMask(_, _, _)
\* (x ** t) & (2 ** bits - 1), reduced while it is computed; x ** 0 is 1
PowMask(x, t, bits) ==
    IF t = 0 THEN Mask(1, bits)
    ELSE Mask(Mask(x, bits) * PowMask(x, t - 1, bits), bits)

RECURSIVE SumSeq(_)
SumSeq(s) == IF s = <<>> THEN 0 ELSE Head(s) + SumSeq(Tail(s))

\* int(x) of a float given in halves (h stands for h / 2): truncation toward zero
IntOfHalves(h) == IF h >= 0 THEN h \div 2 ELSE -((-h) \div 2)

----------------------------------------------------------------------------
(* rol, ror *)

\* a shift in place of the rotation: the bits shifted out are lost
rol_drops_wrapped(val, r_bits, max_bits) ==
    Mask(Shl(val, r_bits % max_bits), max_bits)

rol(val, r_bits, max_bits) ==
    BitOr(Mask(Shl(val, r_bits % max_bits), max_bits),
          Shr(Mask(val, max_bits), max_bits - (r_bits % max_bits)))

\* a shift in place of the rotation: the bits shifted out are lost
ror_drops_wrapped(val, r_bits, max_bits) ==
    Shr(Mask(val, max_bits), r_bits % max_bits)

ror(val, r_bits, max_bits) ==
    BitOr(Shr(Mask(val, max_bits), r_bits % max_bits),
          Mask(Shl(val, max_bits - (r_bits % max_bits)), max_bits))

----------------------------------------------------------------------------
(* The pool's methods as functions of the pool state *)

\* a credit proportional to nothing in particular: two per call
credit_entropy_twice(count) == count + 2

credit_entropy(count) == count + 1

\* the decrement of debit_entropy; the caller raises when the result is < 0
debit_entropy(count) == count - 1

\* the test made with <= in place of <
debit_raises_at_zero(count) == count <= 0

\* the test of debit_entropy on the decremented count
debit_raises(count) == count < 0

\* convert_str_to_int: the sum of the character codes
convert_str_to_int(a_string) == SumSeq(a_string)

RECURSIVE xor_taps_rotating(_, _, _)
\* the rotation made inside the loop, once per tap
xor_taps_rotating(c, input_, taps) ==
    IF taps = <<>> THEN c
    ELSE xor_taps_rotating(
             ror(BitXor(c, PowMask(input_, Head(taps), nbits)), 1, nbits),
             input_, Tail(taps))

RECURSIVE xor_taps(_, _, _)
\* for tap in taps: c ^= (input_ ** tap) & self.bit_mask
xor_taps(c, input_, taps) ==
    IF taps = <<>> THEN c
    ELSE xor_taps(BitXor(c, PowMask(input_, Head(taps), nbits)), input_, Tail(taps))

RECURSIVE xor_taps_wide(_, _, _)
xor_taps_wide(c, input_, taps) ==
    IF taps = <<>> THEN c
    ELSE xor_taps_wide(BitXor(c, PowMask(input_, Head(taps), nbits + 1)),
                       input_, Tail(taps))

\* a bit mask one bit too wide: (1 << (nbits + 1)) - 1
stir_wide_mask(c, input_) ==
    xor_taps_wide(ror(c, stir_ror_by, nbits), input_, stir_taps)

\* the rotation made after the taps instead of before them
stir_rotates_last(c, input_) ==
    ror(xor_taps(c, input_, stir_taps), stir_ror_by, nbits)

\* stir: the content after self.stir(input_) on content c
stir(c, input_) == xor_taps(ror(c, stir_ror_by, nbits), input_, stir_taps)

----------------------------------------------------------------------------
(* Inputs of add_entropy *)

\* an input is a record: its Python type, its number (int; float in halves, with
\* nan set apart) and its characters (str)
IntInput(k) == [type |-> "int", v |-> k, chars |-> <<>>, nan |-> FALSE]
StrInput(s) == [type |-> "str", v |-> 0, chars |-> s, nan |-> FALSE]
FloatInput(h) == [type |-> "float", v |-> h, chars |-> <<>>, nan |-> FALSE]
NanInput == [type |-> "float", v |-> 0, chars |-> <<>>, nan |-> TRUE]
NoneInput == [type |-> "NoneType", v |-> 0, chars |-> <<>>, nan |-> FALSE]

\* str is converted, int is taken as it is, int(input_) succeeds on a float that
\* is a number; int(nan) raises ValueError and int(None) raises TypeError
Coercible(input_) ==
    \/ input_.type \in {"int", "str"}
    \/ input_.type = "float" /\ ~input_.nan

\* the integer add_entropy stirs with
as_int(input_) ==
    CASE input_.type = "str" -> convert_str_to_int(input_.chars)
      [] input_.type = "int" -> input_.v
      [] input_.type = "float" -> IntOfHalves(input_.v)

\* the failed coercion swallowed: the input counts as 0
add_entropy_swallows_error(c, count, input_, credit) ==
    [content |-> stir(c, IF Coercible(input_) THEN as_int(input_) ELSE 0),
     entropy_count |-> IF credit THEN credit_entropy(count) ELSE count,
     raised |-> "none"]

\* add_entropy on pool state (c, count)
add_entropy(c, count, input_, credit) ==
    IF ~Coercible(input_)
    THEN [content |-> c, entropy_count |-> count, raised |-> "TypeError"]
    ELSE [content |-> stir(c, as_int(input_)),
          entropy_count |-> IF credit THEN credit_entropy(count) ELSE count,
          raised |-> "none"]

----------------------------------------------------------------------------
(* get_hash, extract_from_pool, get_random_bytes *)

RECURSIVE bin_digits(_)
\* the binary digits of n > 0, most significant first, as character codes
bin_digits(n) ==
    IF n = 0 THEN <<>> ELSE Append(bin_digits(n \div 2), 48 + (n % 2))

\* bin(n) for n >= 0: "0b" and the digits without leading zeros; bin(0) = "0b0"
bin(n) == <<48, 98>> \o (IF n = 0 THEN <<48>> ELSE bin_digits(n))

\* hash_func(text).digest(): the configured digest, a function of the text
\* alone that returns h bytes
digest(h, text) ==
    [i \in 1..h |-> (SumSeq(text) + 31 * i * Len(text) + i) % 256]

\* get_hash of an integer: the digest of its bin() text
get_hash(to_hash) == digest(hash_func, bin(to_hash))

\* the digest returned without being fed back into the pool
extract_from_pool_no_feedback(c, count) ==
    [content |-> c, entropy_count |-> count, result |-> get_hash(c)]

\* the digest fed back with the default credit_entropy=True
extract_from_pool_credits(c, count) ==
    LET result == get_hash(c)
        added == add_entropy(c, count, StrInput(result), TRUE)
    IN  [content |-> added.content, entropy_count |-> added.entropy_count,
         result |-> result]

\* extract_from_pool on pool state (c, count): hash, feed back without credit
extract_from_pool(c, count) ==
    LET result == get_hash(c)
        added == add_entropy(c, count, StrInput(result), FALSE)
    IN  [content |-> added.content, entropy_count |-> added.entropy_count,
         result |-> result]

RECURSIVE grb_loop_no_truncation(_, _, _, _, _, _)
\* whole digests only: the last block is not cut to the remaining count
grb_loop_no_truncation(c, count, byte_count, result, calls, nbytes) ==
    IF byte_count < nbytes
    THEN LET ex == extract_from_pool(c, count)
             new_count == Len(ex.result)
         IN  grb_loop_no_truncation(ex.content, ex.entropy_count,
                                    byte_count + new_count,
                                    result \o ex.result, calls + 1, nbytes)
    ELSE [content |-> c, entropy_count |-> count, result |-> result,
          extract_calls |-> calls]

RECURSIVE grb_loop_extra_pass(_, _, _, _, _, _)
\* the loop test made with <= : one more pass once the count is reached
grb_loop_extra_pass(c, count, byte_count, result, calls, nbytes) ==
    IF byte_count <= nbytes
    THEN LET ex == extract_from_pool(c, count)
             new_count == Len(ex.result)
         IN  IF byte_count + new_count <= nbytes
             THEN grb_loop_extra_pass(ex.content, ex.entropy_count,
                                      byte_count + new_count,
                                      result \o ex.result, calls + 1, nbytes)
             ELSE LET remaining_count == nbytes - byte_count
                  IN  [content |-> ex.content, entropy_count |-> ex.entropy_count,
                       result |-> result \o SubSeq(ex.result, 1, remaining_count),
                       extract_calls |-> calls + 1]
    ELSE [content |-> c, entropy_count |-> count, result |-> result,
          extract_calls |-> calls]

RECURSIVE grb_loop(_, _, _, _, _, _)
\* the while loop of get_random_bytes
grb_loop(c, count, byte_count, result, calls, nbytes) ==
    IF byte_count < nbytes
    THEN LET ex == extract_from_pool(c, count)
             new_count == Len(ex.result)
         IN  IF byte_count + new_count <= nbytes
             THEN grb_loop(ex.content, ex.entropy_count, byte_count + new_count,
                           result \o ex.result, calls + 1, nbytes)
             ELSE LET remaining_count == nbytes - byte_count
                  IN  [content |-> ex.content, entropy_count |-> ex.entropy_count,
                       result |-> result \o SubSeq(ex.result, 1, remaining_count),
                       extract_calls |-> calls + 1]
    ELSE [content |-> c, entropy_count |-> count, result |-> result,
          extract_calls |-> calls]

\* the debit made after the extraction loop instead of before it
get_random_bytes_extracts_first(c, count, nbytes) ==
    LET out == grb_loop(c, count, 0, <<>>, 0, nbytes)
        debited == debit_entropy(out.entropy_count)
    IN  IF debit_raises(debited)
        THEN [content |-> out.content, entropy_count |-> debited, result |-> NoValue,
              extract_calls |-> out.extract_calls, raised |-> "NotEnoughEntropyError"]
        ELSE [content |-> out.content, entropy_count |-> debited,
              result |-> out.result, extract_calls |-> out.extract_calls,
              raised |-> "none"]

\* get_random_bytes on pool state (c, count)
get_random_bytes(c, count, nbytes) ==
    LET debited == debit_entropy(count)
    IN  IF debit_raises(debited)
        THEN [content |-> c, entropy_count |-> debited, result |-> NoValue,
              extract_calls |-> 0, raised |-> "NotEnoughEntropyError"]
        ELSE LET out == grb_loop(c, debited, 0, <<>>, 0, nbytes)
             IN  [content |-> out.content, entropy_count |-> out.entropy_count,
                  result |-> out.result, extract_calls |-> out.extract_calls,
                  raised |-> "none"]

\* int((now - last) * 1000000) with the clock in ticks: truncation toward zero
time_interval(now, last) ==
    LET ticks == now - last
    IN  IF ticks >= 0 THEN ticks \div TicksPerMicro ELSE -((-ticks) \div TicksPerMicro)

\* self.last_request_t = now left out
add_entropy_from_time_interval_stale(c, count, last, now) ==
    LET added == add_entropy(c, count, IntInput(time_interval(now, last)), TRUE)
    IN  [content |-> added.content, entropy_count |-> added.entropy_count,
         last_request_t |-> last]

\* add_entropy_from_time_interval on pool state (c, count, last) at clock reading now
add_entropy_from_time_interval(c, count, last, now) ==
    LET added == add_entropy(c, count, IntInput(time_interval(now, last)), TRUE)
    IN  [content |-> added.content, entropy_count |-> added.entropy_count,
         last_request_t |-> now]

----------------------------------------------------------------------------
(* The pool as a state machine: construction, then any public call *)

\* the stir configurations of the tests: test_stir's, and pool_8bits' taps with
\* the default rotation
StirChoices == {[stir_taps |-> <<4, 2, 0>>, stir_ror_by |-> 3],
                [stir_taps |-> <<8, 6, 5, 3, 1, 0>>, stir_ror_by |-> 7]}

\* integers, the text "ab", the float -1.5, and two values int() refuses
AddInputs ==
    {IntInput(k) : k \in -1..MaxInput}
    \cup {StrInput(<<97, 98>>), FloatInput(-3), NanInput, NoneInput}

\* a constructor that seeds twice: add_entropy_from_time_interval called two
\* times with the same clock reading
Constructed_seeds_twice ==
    /\ nbits \in {1, MaxNbits}
    /\ \E choice \in StirChoices :
          /\ stir_taps = choice.stir_taps
          /\ stir_ror_by = choice.stir_ror_by
    /\ hash_func \in 1..MaxDigestLen
    /\ \E now \in 0..MaxNow :
          LET once == add_entropy_from_time_interval(0, 0, 0, now)
              made == add_entropy_from_time_interval(
                          once.content, once.entropy_count, once.last_request_t, now)
          IN  /\ content = made.content
              /\ entropy_count = made.entropy_count
              /\ last_request_t = made.last_request_t
              /\ args = [now |-> now]
    /\ op = "__init__"
    /\ ret = NoValue
    /\ raised = "none"
    /\ extract_calls = 0

\* __init__: the fields are zeroed, then one add_entropy_from_time_interval
Constructed ==
    /\ nbits \in {1, MaxNbits}
    /\ \E choice \in StirChoices :
          /\ stir_taps = choice.stir_taps
          /\ stir_ror_by = choice.stir_ror_by
    /\ hash_func \in 1..MaxDigestLen
    /\ \E now \in 0..MaxNow :
          LET made == add_entropy_from_time_interval(0, 0, 0, now)
          IN  /\ content = made.content
              /\ entropy_count = made.entropy_count
              /\ last_request_t = made.last_request_t
              /\ args = [now |-> now]
    /\ op = "__init__"
    /\ ret = NoValue
    /\ raised = "none"
    /\ extract_calls = 0

Init == Constructed /\ pc = "any"

Call_add_entropy(input_, credit) ==
    \E added \in {add_entropy(content, entropy_count, input_, credit)} :
        /\ added.entropy_count <= MaxCount
        /\ content' = added.content
        /\ entropy_count' = added.entropy_count
        /\ raised' = added.raised
        /\ op' = "add_entropy"
        /\ args' = [input_ |-> input_, credit_entropy |-> credit]
        /\ ret' = NoValue
        /\ extract_calls' = 0
        /\ UNCHANGED <<config, last_request_t>>

Call_add_entropy_from_time_interval(now) ==
    \E added \in {add_entropy_from_time_interval(content, entropy_count,
                                                   last_request_t, now)} :
        /\ added.entropy_count <= MaxCount
        /\ content' = added.content
        /\ entropy_count' = added.entropy_count
        /\ last_request_t' = added.last_request_t
        /\ raised' = "none"
        /\ op' = "add_entropy_from_time_interval"
        /\ args' = [now |-> now]
        /\ ret' = NoValue
        /\ extract_calls' = 0
        /\ UNCHANGED config

Call_stir(input_) ==
    /\ content' = stir(content, input_)
    /\ raised' = "none"
    /\ op' = "stir"
    /\ args' = [input_ |-> input_]
    /\ ret' = NoValue
    /\ extract_calls' = 0
    /\ UNCHANGED <<config, entropy_count, last_request_t>>

Call_extract_from_pool ==
    \E ex \in {extract_from_pool(content, entropy_count)} :
        /\ content' = ex.content
        /\ entropy_count' = ex.entropy_count
        /\ raised' = "none"
        /\ op' = "extract_from_pool"
        /\ args' = <<>>
        /\ ret' = ex.result
        /\ extract_calls' = 1
        /\ UNCHANGED <<config, last_request_t>>

Call_get_random_bytes(nbytes) ==
    \E got \in {get_random_bytes(content, entropy_count, nbytes)} :
        /\ got.entropy_count >= -MaxDebt
        /\ content' = got.content
        /\ entropy_count' = got.entropy_count
        /\ raised' = got.raised
        /\ op' = "get_random_bytes"
        /\ args' = [nbytes |-> nbytes]
        /\ ret' = got.result
        /\ extract_calls' = got.extract_calls
        /\ UNCHANGED <<config, last_request_t>>

Next ==
    \/ \E input_ \in AddInputs, credit \in BOOLEAN :
          Call_add_entropy(input_, credit) /\ UNCHANGED pc
    \/ \E now \in 0..MaxNow :
          Call_add_entropy_from_time_interval(now) /\ UNCHANGED pc
    \/ \E k \in -1..MaxInput : Call_stir(k) /\ UNCHANGED pc
    \/ Call_extract_from_pool /\ UNCHANGED pc
    \/ \E nbytes \in 0..MaxNbytes : Call_get_random_bytes(nbytes) /\ UNCHANGED pc

Spec == Init /\ [][Next]_vars

----------------------------------------------------------------------------
(* test_get_random_bytes, continued by the retry the caller is expected to *)
(* make: the count is set to 2, three get_random_bytes calls follow, then   *)
(* one credited add_entropy and one more get_random_bytes.                  *)

InitExhaustion == Constructed /\ pc = "set_count"

\* self.pool_DEFAULT.entropy_count = 2
Test_set_count ==
    /\ pc = "set_count"
    /\ entropy_count' = 2
    /\ op' = "set_count"
    /\ pc' = "first"
    /\ UNCHANGED <<config, content, last_request_t, args, ret, raised, extract_calls>>

Test_first ==
    /\ pc = "first"
    /\ \E nbytes \in 0..MaxNbytes : Call_get_random_bytes(nbytes)
    /\ pc' = "second"

Test_second ==
    /\ pc = "second"
    /\ \E nbytes \in 0..MaxNbytes : Call_get_random_bytes(nbytes)
    /\ pc' = "third"

Test_third ==
    /\ pc = "third"
    /\ \E nbytes \in 0..MaxNbytes : Call_get_random_bytes(nbytes)
    /\ pc' = "add"

Test_add ==
    /\ pc = "add"
    /\ \E input_ \in {i \in AddInputs : Coercible(i)} : Call_add_entropy(input_, TRUE)
    /\ pc' = "retry"

Test_retry ==
    /\ pc = "retry"
    /\ \E nbytes \in 0..MaxNbytes : Call_get_random_bytes(nbytes)
    /\ pc' = "done"

NextExhaustion ==
    \/ Test_set_count
    \/ Test_first
    \/ Test_second
    \/ Test_third
    \/ Test_add
    \/ Test_retry

SpecExhaustion == InitExhaustion /\ [][NextExhaustion]_vars

----------------------------------------------------------------------------
(* rol and ror as pure functions: the inputs are drawn in the initial state *)
(* and the calls apply the functions to them.                               *)

\* test_rotation's three cases
RotationTests == {[val |-> 9, r_bits |-> 1, max_bits |-> 4],
                  [val |-> 1, r_bits |-> 1, max_bits |-> 16]}

RotationInputs ==
    [val : -2..MaxVal, r_bits : -1..MaxRBits, max_bits : 1..MaxBits]
    \cup RotationTests

InitRotation ==
    /\ nbits = MaxNbits
    /\ stir_taps = <<4, 2, 0>>
    /\ stir_ror_by = 3
    /\ hash_func = 1
    /\ content = 0
    /\ entropy_count = 0
    /\ last_request_t = 0
    /\ op = "none"
    /\ args \in RotationInputs
    /\ ret = 0
    /\ raised = "none"
    /\ extract_calls = 0
    /\ pc = "any"

Call_ror ==
    /\ op = "none"
    /\ ret' = ror(args.val, args.r_bits, args.max_bits)
    /\ op' = "ror"
    /\ UNCHANGED <<config, content, entropy_count, last_request_t, args, raised,
                   extract_calls, pc>>

Call_rol ==
    /\ op = "none"
    /\ ret' = rol(args.val, args.r_bits, args.max_bits)
    /\ op' = "rol"
    /\ UNCHANGED <<config, content, entropy_count, last_request_t, args, raised,
                   extract_calls, pc>>

\* rol applied to what ror returned, with the same r_bits and max_bits
Call_rol_of_ror ==
    /\ op = "ror"
    /\ ret' = rol(ret, args.r_bits, args.max_bits)
    /\ op' = "rol(ror)"
    /\ UNCHANGED <<config, content, entropy_count, last_request_t, args, raised,
                   extract_calls, pc>>

NextRotation ==
    \/ Call_ror
    \/ Call_rol
    \/ Call_rol_of_ror

SpecRotation == InitRotation /\ [][NextRotation]_vars

----------------------------------------------------------------------------
(* A caller that keeps asking for bytes: every get_random_bytes call that   *)
(* raises is answered with one credited add_entropy or                      *)
(* add_entropy_from_time_interval call and a retry.  The caller never stops *)
(* by itself, which the fairness condition states.  The pools are the ones   *)
(* constructed with test_stir's taps; the credit counter does not depend on  *)
(* the taps.                                                                 *)

InitRetry == Constructed /\ stir_taps = <<4, 2, 0>> /\ pc = "request"

Retry_request ==
    /\ pc = "request"
    /\ \E nbytes \in 0..MaxNbytes : Call_get_random_bytes(nbytes)
    /\ pc' = IF raised' = "none" THEN "request" ELSE "add"

Retry_add ==
    /\ pc = "add"
    /\ \/ \E input_ \in {i \in AddInputs : Coercible(i)} :
             Call_add_entropy(input_, TRUE)
       \/ \E now \in 0..MaxNow : Call_add_entropy_from_time_interval(now)
    /\ pc' = "request"

NextRetry ==
    \/ Retry_request
    \/ Retry_add

SpecRetry == InitRetry /\ [][NextRetry]_vars /\ WF_vars(NextRetry)

----------------------------------------------------------------------------
(* stir as a pure function: the configuration, the content and the input    *)
(* are drawn in the initial state and one stir call is made on them.        *)

\* test_stir: nbits=16, stir_ror_by=3, stir_taps=[4,2,0], content = 0b1111, input 2
StirTest == [nbits |-> 16, stir_taps |-> <<4, 2, 0>>, stir_ror_by |-> 3,
             content |-> 15, input_ |-> 2]

StirCases ==
    {[nbits |-> n, stir_taps |-> choice.stir_taps,
      stir_ror_by |-> choice.stir_ror_by, content |-> c, input_ |-> k] :
        n \in {1, MaxNbits}, choice \in StirChoices,
        c \in 0..(2 ^ MaxNbits - 1), k \in -2..(MaxInput + 1)}

InitStir ==
    /\ \E case \in {k \in StirCases : k.content < 2 ^ k.nbits} \cup {StirTest} :
          /\ nbits = case.nbits
          /\ stir_taps = case.stir_taps
          /\ stir_ror_by = case.stir_ror_by
          /\ content = case.content
          /\ args = [input_ |-> case.input_]
    /\ hash_func = 1
    /\ entropy_count = 0
    /\ last_request_t = 0
    /\ op = "none"
    /\ ret = NoValue
    /\ raised = "none"
    /\ extract_calls = 0
    /\ pc = "any"

NextStir ==
    /\ op = "none"
    /\ Call_stir(args.input_)
    /\ UNCHANGED pc

SpecStir == InitStir /\ [][NextStir]_vars

----------------------------------------------------------------------------
(* Reference rotation, bit by bit *)

Bit(v, i) == (v \div (2 ^ i)) % 2

RECURSIVE RefRotate(_, _, _, _)
\* the number whose bit i, for i < m, is bit (i + k) mod m of v, built from bit
\* n - 1 down to bit 0: a rotation of v to the right by k within m bits
RefRotate(v, k, m, n) ==
    IF n = 0 THEN 0
    ELSE Bit(v, (n - 1 + k) % m) * (2 ^ (n - 1)) + RefRotate(v, k, m, n - 1)

RefRor(v, k, m) == RefRotate(v % (2 ^ m), k % m, m, m)
RefRol(v, k, m) == RefRotate(v % (2 ^ m), (-k) % m, m, m)

----------------------------------------------------------------------------
(* The claims *)

\* C1: in the exhaustion scenario (entropy_count = 2, then three
\* get_random_bytes calls, one credited add_entropy and a last
\* get_random_bytes), the first two calls succeed and leave the count at 1 and
\* at 0, the third raises NotEnoughEntropyError, and the call made after the
\* credited add_entropy succeeds.
C1_Exhaustion ==
    /\ pc = "second" => raised = "none" /\ entropy_count = 1
    /\ pc = "third" => raised = "none" /\ entropy_count = 0
    /\ pc = "add" => raised = "NotEnoughEntropyError"
    /\ pc = "done" => raised = "none"

\* C2: between public calls, whether the last call succeeded or raised,
\* entropy_count >= 0.
C2_CountNeverNegative == entropy_count >= 0

\* C3: a completed add_entropy call with credit_entropy true, and every
\* add_entropy_from_time_interval call, raises entropy_count by exactly 1; an
\* add_entropy call with credit_entropy false leaves it unchanged.
C3_CreditIsOnePerCreditedCall ==
    [][/\ (op' = "add_entropy" /\ raised' = "none" /\ args'.credit_entropy)
            => entropy_count' = entropy_count + 1
       /\ (op' = "add_entropy" /\ ~args'.credit_entropy)
            => entropy_count' = entropy_count
       /\ op' = "add_entropy_from_time_interval"
            => entropy_count' = entropy_count + 1]_vars

C3_Witness ==
    /\ op = "add_entropy"
    /\ raised = "none"
    /\ args.credit_entropy
    /\ entropy_count = 2

\* C4: a successful get_random_bytes call lowers entropy_count by exactly 1,
\* whatever nbytes is and however many extract_from_pool calls it makes.
C4_OneDebitPerCall ==
    [][(op' = "get_random_bytes" /\ raised' = "none")
          => entropy_count' = entropy_count - 1]_vars

C4_Witness ==
    /\ op = "get_random_bytes"
    /\ raised = "none"
    /\ extract_calls >= 2
    /\ entropy_count = 0

\* C5: a successful get_random_bytes(k) call returns exactly k bytes, for k = 0
\* and for k that is or is not a multiple of the digest length.
C5_ExactLength ==
    (op = "get_random_bytes" /\ raised = "none") => Len(ret) = args.nbytes

C5_Witness ==
    /\ op = "get_random_bytes"
    /\ raised = "none"
    /\ hash_func = 2
    /\ args.nbytes = 3
    /\ Len(ret) = 3

\* C6: 0 <= content < 2^nbits in every reachable state.
C6_ContentInField == 0 <= content /\ content < 2 ^ nbits

C6_Witness ==
    /\ op = "stir"
    /\ args.input_ = -1
    /\ nbits = MaxNbits
    /\ content >= 2 ^ (nbits - 1)

\* C7: a get_random_bytes call that raises NotEnoughEntropyError returns no
\* bytes, makes no extract_from_pool call and leaves content as it was.
C7_FailsBeforeExtraction ==
    [][(op' = "get_random_bytes" /\ raised' = "NotEnoughEntropyError")
          => /\ content' = content
             /\ ret' = <<>>
             /\ extract_calls' = 0]_vars

C7_Witness ==
    /\ op = "get_random_bytes"
    /\ raised = "NotEnoughEntropyError"
    /\ args.nbytes > 0

\* C8: an add_entropy call whose input is neither text nor coercible to an
\* integer raises, and content, entropy_count and last_request_t stay as they
\* were, with credit_entropy true as with false.
C8_InvalidInputChangesNothing ==
    [][(op' = "add_entropy" /\ ~Coercible(args'.input_))
          => /\ raised' = "TypeError"
             /\ content' = content
             /\ entropy_count' = entropy_count
             /\ last_request_t' = last_request_t]_vars

C8_Witness ==
    /\ op = "add_entropy"
    /\ ~Coercible(args.input_)
    /\ args.credit_entropy
    /\ raised = "TypeError"

\* C9: for val >= 0, r >= 0 and max_bits > 0,
\* rol(ror(val, r, max_bits), r, max_bits) = val mod 2^max_bits.
C9_RotationRoundTrip ==
    (op = "rol(ror)" /\ args.val >= 0 /\ args.r_bits >= 0)
        => ret = args.val % (2 ^ args.max_bits)

C9_Witness ==
    /\ op = "rol(ror)"
    /\ args.val > 2 ^ args.max_bits
    /\ args.r_bits > args.max_bits
    /\ ret # args.val
    /\ ret # 0

\* C10: rol and ror return the rotation of val mod 2^max_bits by
\* r_bits mod max_bits, a value below 2^max_bits; r_bits = 0 returns
\* val mod 2^max_bits; rol(0b1001,1,4) = 0b0011, ror(0b1001,1,4) = 0b1100 and
\* ror(0b1,1,16) = 0b1000000000000000.
C10_ExactRotation ==
    LET val == args.val
        r == args.r_bits
        m == args.max_bits
    IN  /\ op = "ror" =>
            /\ ret = RefRor(val, r, m)
            /\ ret = ror(val % (2 ^ m), r % m, m)
            /\ 0 <= ret /\ ret < 2 ^ m
            /\ r = 0 => ret = val % (2 ^ m)
            /\ (val = 9 /\ r = 1 /\ m = 4) => ret = 12
            /\ (val = 1 /\ r = 1 /\ m = 16) => ret = 32768
        /\ op = "rol" =>
            /\ ret = RefRol(val, r, m)
            /\ ret = rol(val % (2 ^ m), r % m, m)
            /\ 0 <= ret /\ ret < 2 ^ m
            /\ r = 0 => ret = val % (2 ^ m)
            /\ (val = 9 /\ r = 1 /\ m = 4) => ret = 3

C10_Witness ==
    /\ op = "ror"
    /\ args = [val |-> 1, r_bits |-> 1, max_bits |-> 16]
    /\ ret = 32768


\* bit i of the XOR of the masked powers input_ ^ t, t ranging over taps
TapsBit(input_, taps, i) ==
    LET hits == {j \in 1..Len(taps) : Bit(PowMask(input_, taps[j], nbits), i) = 1}
    IN  Cardinality(hits) % 2

RECURSIVE RefStirBits(_, _, _)
\* bits n - 1 .. 0 of: content c rotated right once by stir_ror_by, each bit
\* then flipped once for every tap whose masked power has that bit
RefStirBits(c, input_, n) ==
    IF n = 0 THEN 0
    ELSE ((Bit(RefRor(c, stir_ror_by, nbits), n - 1)
             + TapsBit(input_, stir_taps, n - 1)) % 2) * (2 ^ (n - 1))
         + RefStirBits(c, input_, n - 1)

\* C11: stir(input) sets content to ror(content, stir_ror_by, nbits) XOR-ed
\* with input^t mod 2^nbits for every tap t, the rotation made once and before
\* the taps; test_stir's case yields 0b1110000000010100.
C11_StirIsRotateThenXor ==
    [][op' = "stir" =>
          /\ content' = RefStirBits(content, args'.input_, nbits)
          /\ (nbits = 16 /\ content = 15 /\ args'.input_ = 2) => content' = 57364]_vars

C11_Witness ==
    /\ op = "stir"
    /\ nbits = 16
    /\ args.input_ = 2
    /\ content = 57364

\* C18: the content after stir(input) is the same for every order of the tap
\* list.
C18_TapOrderIrrelevant ==
    [][op' = "stir" =>
          \A p \in Permutations(1..Len(stir_taps)) :
              xor_taps(ror(content, stir_ror_by, nbits), args'.input_,
                       [i \in 1..Len(stir_taps) |-> stir_taps[p[i]]]) = content']_vars

C18_Witness ==
    /\ op = "stir"
    /\ Len(stir_taps) = 6
    /\ nbits = MaxNbits
    /\ args.input_ = -2
    /\ content # 0


C13_ConstructionSeedsOnce ==
    op = "__init__" =>
        /\ entropy_count = 1
        /\ last_request_t = args.now
        /\ content = stir(0, time_interval(args.now, 0))

C13_Witness ==
    /\ op = "__init__"
    /\ args.now = MaxNow
    /\ last_request_t = MaxNow
    /\ entropy_count = 1
    /\ stir_taps = <<8, 6, 5, 3, 1, 0>>


C15_RetryEventuallySucceeds ==
    (op = "get_random_bytes" /\ raised = "NotEnoughEntropyError")
        ~> (op = "get_random_bytes" /\ raised = "none")


\* C16: a get_random_bytes call succeeds if and only if entropy_count >= 1
\* when it is called; with entropy_count <= 0 it raises NotEnoughEntropyError.
C16_SucceedsIffCredit ==
    [][op' = "get_random_bytes" =>
          /\ (raised' = "none") <=> (entropy_count >= 1)
          /\ (raised' = "NotEnoughEntropyError") <=> (entropy_count <= 0)]_vars

C16_Witness ==
    /\ op = "get_random_bytes"
    /\ raised = "NotEnoughEntropyError"
    /\ entropy_count = -2


\* the content after feeding the digest of content c back into c
RefFeedBack(c) == stir(c, SumSeq(get_hash(c)))

RECURSIVE RefDigests(_, _)
\* the digests of n successive extractions from content c, in call order
RefDigests(c, n) ==
    IF n = 0 THEN <<>> ELSE get_hash(c) \o RefDigests(RefFeedBack(c), n - 1)

RECURSIVE RefContent(_, _)
\* the content after n successive extractions from content c
RefContent(c, n) == IF n = 0 THEN c ELSE RefContent(RefFeedBack(c), n - 1)

\* C17: a successful get_random_bytes(k) with digest length L makes
\* ceil(k / L) extract_from_pool calls, returns the first k bytes of their
\* digests in call order, and for k = 0 makes no extraction and leaves content
\* unchanged while still taking one credit.
C17_ExtractionCount ==
    [][(op' = "get_random_bytes" /\ raised' = "none") =>
          LET k == args'.nbytes
              n == (k + hash_func - 1) \div hash_func
          IN  /\ extract_calls' = n
              /\ ret' = SubSeq(RefDigests(content, n), 1, k)
              /\ content' = RefContent(content, n)
              /\ k = 0 => /\ extract_calls' = 0
                          /\ content' = content
                          /\ entropy_count' = entropy_count - 1]_vars

C17_Witness ==
    /\ op = "get_random_bytes"
    /\ raised = "none"
    /\ hash_func = 2
    /\ args.nbytes = 3
    /\ extract_calls = 2
    /\ ret[1] # ret[3]

====
